---- MODULE Spec2Model ----
(***************************************************************************)
(* Model of progenitor-client/src/progenitor_client.rs: the ResponseValue  *)
(* construction paths, the Error taxonomy, content_length, encode_path and *)
(* the RequestBuilderExt helpers.                                          *)
(*                                                                         *)
(* Text is modelled as a sequence of byte codes (48 = '0', 37 = '%', ...). *)
(* Option<T> is modelled as a sequence: None is << >>, Some(x) is << x >>. *)
(* Result<T, E> is a record [ok |-> TRUE, v |-> ...] or                    *)
(* [ok |-> FALSE, e |-> ...].                                              *)
(***************************************************************************)
EXTENDS Integers, Sequences, FiniteSets, TLC

VARIABLES
    builder,    \* Option<RequestBuilder>: the request under construction
    response,   \* Option<reqwest::Response>: a received, unclassified response
    result,     \* Option<Result<ResponseValue, Error>>: what the call site holds
    last,       \* the last operation: [op, in, out]
    pc,         \* encode_path: the input text, as bytes
    encoded     \* encode_path: the successive encodings of pc

vars == << builder, response, result, last, pc, encoded >>

None == << >>

Some(x) == << x >>

Ok(v) == [ok |-> TRUE, v |-> v]

Err(e) == [ok |-> FALSE, e |-> e]

----------------------------------------------------------------------------
(* The transport's values.                                                 *)

SWITCHING_PROTOCOLS == 101

Statuses == {SWITCHING_PROTOCOLS, 200, 404}

CONTENT_LENGTH == "content-length"

CONTENT_TYPE == "content-type"

\* Header collections: ordered multi-maps, a sequence of <<name, value>>.
Headers ==
    { << >>,
      << <<CONTENT_LENGTH, <<53>> >> >>,
      << <<CONTENT_TYPE, <<97>> >>, <<CONTENT_LENGTH, <<49, 48>> >> >> }

\* Response bodies: one that decodes as the target type (to v), one that
\* does not, and one whose read fails in the transport.
Bodies ==
    { [kind |-> "json", v |-> 7], [kind |-> "json", v |-> 8],
      [kind |-> "garbage"], [kind |-> "broken"] }

\* handshake: whether the connection completes a protocol upgrade if asked.
Responses ==
    [status : Statuses, headers : Headers, body : Bodies, handshake : BOOLEAN]

\* reqwest::Error: only an error of kind Status carries a status code.
ReqwestErrors ==
    [kind : {"Decode", "Body", "Upgrade", "Connect"}, status : {None}]
        \cup [kind : {"Status"}, status : {Some(s) : s \in Statuses}]

\* reqwest::Response::json(): read the whole body, then decode it.
json(r) ==
    CASE r.body.kind = "json"    -> Ok(r.body.v)
      [] r.body.kind = "garbage" -> Err([kind |-> "Decode", status |-> None])
      [] OTHER                   -> Err([kind |-> "Body", status |-> None])

\* reqwest::Response::upgrade(): the handshake succeeds or fails.
upgrade_conn(r) ==
    IF r.handshake THEN Ok([type |-> "Upgraded", of |-> r.body])
    ELSE Err([kind |-> "Upgrade", status |-> None])

----------------------------------------------------------------------------
(* ResponseValue<T>                                                        *)

Unit == [type |-> "unit"]

Value(v) == [type |-> "value", v |-> v]

ByteStream(body) == [type |-> "ByteStream", of |-> body]

ResponseValue(inner, status, headers) ==
    [inner |-> inner, status |-> status, headers |-> headers]

InvalidRequest(s) == [variant |-> "InvalidRequest", msg |-> s]

CommunicationError(e) == [variant |-> "CommunicationError", e |-> e]

ErrorResponse(rv) == [variant |-> "ErrorResponse", rv |-> rv]

InvalidResponsePayload(e) == [variant |-> "InvalidResponsePayload", e |-> e]

UnexpectedResponse(r) == [variant |-> "UnexpectedResponse", r |-> r]

\* from_response refusing an error status before it decodes.
from_response_checked(r) ==
    IF r.status >= 400 THEN Err(UnexpectedResponse(r))
    ELSE LET inner == json(r)
         IN  IF inner.ok
             THEN Ok(ResponseValue(Value(inner.v), r.status, r.headers))
             ELSE Err(InvalidResponsePayload(inner.e))

from_response(r) ==
    LET status == r.status
        headers == r.headers
        inner == json(r)
    IN  IF inner.ok
        THEN Ok(ResponseValue(Value(inner.v), status, headers))
        ELSE Err(InvalidResponsePayload(inner.e))

\* upgrade without the status check.
upgrade_any_status(r) ==
    LET inner == upgrade_conn(r)
    IN  IF inner.ok
        THEN Ok(ResponseValue(inner.v, r.status, r.headers))
        ELSE Err(InvalidResponsePayload(inner.e))

upgrade(r) ==
    LET status == r.status
        headers == r.headers
    IN  IF status = SWITCHING_PROTOCOLS
        THEN LET inner == upgrade_conn(r)
             IN  IF inner.ok
                 THEN Ok(ResponseValue(inner.v, status, headers))
                 ELSE Err(InvalidResponsePayload(inner.e))
        ELSE Err(UnexpectedResponse(r))

stream(r) == ResponseValue(ByteStream(r.body), r.status, r.headers)

\* empty with fresh headers instead of the response's.
empty_no_headers(r) == ResponseValue(Unit, r.status, << >>)

empty(r) == ResponseValue(Unit, r.status, r.headers)

new(inner, status, headers) == ResponseValue(inner, status, headers)

into_inner(rv) == rv.inner

rv_status(rv) == rv.status

rv_headers(rv) == rv.headers

\* The conversion functions a call site hands to map.
Fns == {"id", "tag", "unit"}

Apply(f, x) ==
    CASE f = "id"  -> x
      [] f = "tag" -> [type |-> "tagged", of |-> x.type]
      [] OTHER     -> Unit

\* map applying the conversion twice.
map_twice(rv, f) ==
    Ok(ResponseValue(Apply(f, Apply(f, rv.inner)), rv.status, rv.headers))

map(rv, f) == Ok(ResponseValue(Apply(f, rv.inner), rv.status, rv.headers))

----------------------------------------------------------------------------
(* content_length: HeaderMap::get, HeaderValue::to_str, str::parse::<u64>  *)

U64Bits == 64

\* A u64 is kept at its width as little-endian limbs of 16 bits.
LimbBase == 2 ^ 16

ZeroU64 == [i \in 1..(U64Bits \div 16) |-> 0]

\* n * m + a over the limbs; the carry out of the top limb is the overflow.
RECURSIVE MulAddLimbs(_, _, _, _)
MulAddLimbs(n, m, a, i) ==
    IF i > Len(n) THEN [n |-> n, carry |-> a]
    ELSE LET t == n[i] * m + a
         IN  MulAddLimbs([n EXCEPT ![i] = t % LimbBase], m, t \div LimbBase,
                         i + 1)

checked_mul(n, m) ==
    LET r == MulAddLimbs(n, m, 0, 1) IN IF r.carry = 0 THEN Some(r.n) ELSE None

checked_add(n, a) ==
    LET r == MulAddLimbs(n, 1, a, 1) IN IF r.carry = 0 THEN Some(r.n) ELSE None

IsDigit(c) == c \in 48..57

RECURSIVE parse_digits(_, _)
parse_digits(digits, acc) ==
    IF digits = << >> THEN Ok(acc)
    ELSE IF ~IsDigit(digits[1]) THEN Err("InvalidDigit")
    ELSE LET mul == checked_mul(acc, 10)
         IN  IF mul = None THEN Err("PosOverflow")
             ELSE LET add == checked_add(mul[1], digits[1] - 48)
                  IN  IF add = None THEN Err("PosOverflow")
                      ELSE parse_digits(Tail(digits), add[1])

\* from_str taking a '-' the way a signed type does (and dropping it).
parse_u64_signed(src) ==
    IF src = << >> THEN Err("Empty")
    ELSE IF Len(src) = 1 /\ src[1] \in {43, 45} THEN Err("InvalidDigit")
    ELSE parse_digits(IF src[1] \in {43, 45} THEN Tail(src) ELSE src, ZeroU64)

\* <u64 as FromStr>::from_str: a leading '+' is skipped, a '-' is a digit
\* error for an unsigned type.
parse_u64(src) ==
    IF src = << >> THEN Err("Empty")
    ELSE IF Len(src) = 1 /\ src[1] \in {43, 45} THEN Err("InvalidDigit")
    ELSE parse_digits(IF src[1] = 43 THEN Tail(src) ELSE src, ZeroU64)

\* HeaderValue::to_str: every byte is visible ASCII or a tab.
to_str(value) ==
    IF \A i \in 1..Len(value) :
          (value[i] >= 32 /\ value[i] < 127) \/ value[i] = 9
    THEN Ok(value) ELSE Err("ToStrError")

\* HeaderMap::get: the first value stored under the name.
get(headers, name) ==
    LET at == {i \in 1..Len(headers) : headers[i][1] = name}
    IN  IF at = {} THEN None
        ELSE Some(headers[CHOOSE i \in at : \A j \in at : i <= j][2])

content_length(rv) ==
    LET value == get(rv.headers, CONTENT_LENGTH)
    IN  IF value = None THEN None
        ELSE LET text == to_str(value[1])
             IN  IF ~text.ok THEN None
                 ELSE LET n == parse_u64(text.v)
                      IN  IF n.ok THEN Some(n.v) ELSE None

----------------------------------------------------------------------------
(* Error<E>                                                                *)

\* status() with no status for a payload error.
status_no_payload(e) ==
    CASE e.variant = "InvalidRequest"         -> None
      [] e.variant = "CommunicationError"     -> e.e.status
      [] e.variant = "ErrorResponse"          -> Some(rv_status(e.rv))
      [] e.variant = "InvalidResponsePayload" -> None
      [] e.variant = "UnexpectedResponse"     -> Some(e.r.status)

status(e) ==
    CASE e.variant = "InvalidRequest"         -> None
      [] e.variant = "CommunicationError"     -> e.e.status
      [] e.variant = "ErrorResponse"          -> Some(rv_status(e.rv))
      [] e.variant = "InvalidResponsePayload" -> e.e.status
      [] e.variant = "UnexpectedResponse"     -> Some(e.r.status)

\* into_untyped losing the headers of an error response.
into_untyped_no_headers(e) ==
    IF e.variant = "ErrorResponse"
    THEN ErrorResponse(ResponseValue(Unit, e.rv.status, << >>))
    ELSE e

into_untyped(e) ==
    CASE e.variant = "InvalidRequest"         -> InvalidRequest(e.msg)
      [] e.variant = "CommunicationError"     -> CommunicationError(e.e)
      [] e.variant = "ErrorResponse"          ->
            ErrorResponse(ResponseValue(Unit, e.rv.status, e.rv.headers))
      [] e.variant = "InvalidResponsePayload" -> InvalidResponsePayload(e.e)
      [] e.variant = "UnexpectedResponse"     -> UnexpectedResponse(e.r)

from_reqwest_error(e) == CommunicationError(e)

\* InvalidHeaderValue renders as one fixed message.
InvalidHeaderValueText == "failed to parse header value"

from_invalid_header_value(e) == InvalidRequest(e)

----------------------------------------------------------------------------
(* encode_path                                                             *)

CONTROLS == (0..31) \cup {127}

\* space " # < > ? ` { } / %
\* The set without '%'.
PATH_SET_no_percent == CONTROLS \cup {32, 34, 35, 60, 62, 63, 96, 123, 125, 47}

PATH_SET == CONTROLS \cup {32, 34, 35, 60, 62, 63, 96, 123, 125, 47, 37}

HexDigit(n) == IF n < 10 THEN 48 + n ELSE 55 + n

percent_encode_byte(b) == <<37, HexDigit(b \div 16), HexDigit(b % 16)>>

\* utf8_percent_encode: a byte that is not ASCII or is in the set is
\* escaped, every other byte is copied.
RECURSIVE utf8_percent_encode(_, _)
utf8_percent_encode(input, set) ==
    IF input = << >> THEN << >>
    ELSE (IF input[1] >= 128 \/ input[1] \in set
          THEN percent_encode_byte(input[1])
          ELSE << input[1] >>) \o utf8_percent_encode(Tail(input), set)

encode_path(text) == utf8_percent_encode(text, PATH_SET)

----------------------------------------------------------------------------
(* RequestBuilderExt                                                       *)

MaxParts == 2

EmptyBuilder == [headers |-> << >>, body |-> None]

\* RequestBuilder::header appends to the request's headers.
header(b, name, value) ==
    [b EXCEPT !.headers = Append(b.headers, <<name, value>>)]

body(b, text) == [b EXCEPT !.body = Some(text)]

\* Bodies handed to form_urlencoded: serde_urlencoded serializes some to
\* text and rejects the others.
FormBodies ==
    { [kind |-> "pairs", text |-> "a=1"], [kind |-> "pairs", text |-> ""],
      [kind |-> "unsupported"] }

to_string(b) ==
    IF b.kind = "pairs" THEN Ok(b.text) ELSE Err("Custom(unsupported value)")

\* form_urlencoded sending an empty body when serialization fails.
form_urlencoded_lenient(self, b) ==
    LET withHeader ==
            header(self, CONTENT_TYPE, "application/x-www-form-urlencoded")
        text == to_string(b)
    IN  Ok(body(withHeader, IF text.ok THEN text.v ELSE ""))

form_urlencoded(self, b) ==
    LET withHeader ==
            header(self, CONTENT_TYPE, "application/x-www-form-urlencoded")
        text == to_string(b)
    IN  IF text.ok
        THEN Ok(body(withHeader, text.v))
        ELSE Err(InvalidRequest(<<"failed to serialize body", text.e>>))

PartNames == {"a", "b"}

PartValues == { << >>, <<0>>, <<255, 10>> }

RECURSIVE SeqsUpTo(_, _)
SeqsUpTo(S, n) ==
    IF n = 0 THEN { << >> }
    ELSE LET shorter == SeqsUpTo(S, n - 1)
         IN  shorter \cup
             { Append(q, x) : q \in {t \in shorter : Len(t) = n - 1}, x \in S }

RawForms == SeqsUpTo(PartNames \X PartValues, MaxParts)

\* Form::part appended once per pair, in iteration order.
RECURSIVE form_parts(_, _)
form_parts(form, iter) ==
    IF iter = << >> THEN form
    ELSE form_parts(Append(form, [name |-> iter[1][1],
                                  stream |-> iter[1][2]]), Tail(iter))

\* RequestBuilder::multipart adds its own content-type (with the boundary)
\* and installs the form as the body.
multipart(b, form) ==
    body(header(b, CONTENT_TYPE, "multipart/form-data; boundary=B"),
         [form |-> form])

form_from_raw(self, iter) ==
    LET form == form_parts(<< >>, iter)
    IN  Ok(multipart(header(self, CONTENT_TYPE, "multipart/form-data"), form))

----------------------------------------------------------------------------
(* One generated client call: build the request, send it, classify the     *)
(* response, then use the ResponseValue or the Error.                      *)

NoText == << >>

Op(name, in, out) == [op |-> name, in |-> in, out |-> out]

Init ==
    /\ builder = Some(EmptyBuilder)
    /\ response = None
    /\ result = None
    /\ last = Op("init", None, None)
    /\ pc = NoText
    /\ encoded = << >>

Idle == UNCHANGED << pc, encoded >>

\* The call site keeps an Ok builder and returns an Err to its caller.
Built(name, in, out) ==
    /\ builder' = IF out.ok THEN Some(out.v) ELSE None
    /\ result' = IF out.ok THEN None ELSE Some(out)
    /\ last' = Op(name, in, out)
    /\ UNCHANGED response
    /\ Idle

FormUrlencoded ==
    /\ builder # None
    /\ builder[1].body = None
    /\ \E b \in FormBodies :
          Built("form_urlencoded", [self |-> builder[1], body |-> b],
                form_urlencoded(builder[1], b))

FormFromRaw ==
    /\ builder # None
    /\ builder[1].body = None
    /\ \E iter \in RawForms :
          Built("form_from_raw", [self |-> builder[1], iter |-> iter],
                form_from_raw(builder[1], iter))

\* A header parameter fails validation: `?` converts the failure.
HeaderInvalid ==
    /\ builder # None
    /\ Built("from_invalid_header_value", InvalidHeaderValueText,
             Err(from_invalid_header_value(InvalidHeaderValueText)))

\* The transport fails (or error_for_status rejects the response): `?`
\* converts the failure.
TransportFails ==
    /\ builder # None
    /\ \E e \in ReqwestErrors :
          Built("from_reqwest_error", e, Err(from_reqwest_error(e)))

Receive ==
    /\ builder # None
    /\ \E r \in Responses : response' = Some(r)
    /\ builder' = None
    /\ last' = Op("send", builder[1], None)
    /\ UNCHANGED result
    /\ Idle

\* A construction path consumes the response.
Constructed(name, in, out) ==
    /\ response' = None
    /\ result' = Some(out)
    /\ last' = Op(name, in, out)
    /\ UNCHANGED builder
    /\ Idle

FromResponse ==
    /\ response # None
    /\ Constructed("from_response", response[1], from_response(response[1]))

Upgrade ==
    /\ response # None
    /\ Constructed("upgrade", response[1], upgrade(response[1]))

Stream ==
    /\ response # None
    /\ Constructed("stream", response[1], Ok(stream(response[1])))

Empty ==
    /\ response # None
    /\ Constructed("empty", response[1], Ok(empty(response[1])))

\* The call site finds a status its contract does not list.
Unexpected ==
    /\ response # None
    /\ Constructed("unexpected", response[1],
                   Err(UnexpectedResponse(response[1])))

\* The call site decodes by hand and reports the transport's error.
PayloadInvalid ==
    /\ response # None
    /\ \E e \in ReqwestErrors :
          Constructed("invalid_payload", e, Err(InvalidResponsePayload(e)))

\* The call site decoded a documented error body: it wraps the value.
Documented ==
    /\ result # None
    /\ result[1].ok
    /\ last.op = "from_response"
    /\ result' = Some(Err(ErrorResponse(result[1].v)))
    /\ last' = Op("error_response", result[1].v, result'[1])
    /\ UNCHANGED << builder, response >>
    /\ Idle

Map ==
    /\ result # None
    /\ result[1].ok
    /\ \E f \in Fns :
          /\ result' = Some(map(result[1].v, f))
          /\ last' = Op("map", [self |-> result[1].v, f |-> f], result'[1])
    /\ UNCHANGED << builder, response >>
    /\ Idle

IntoUntyped ==
    /\ result # None
    /\ ~result[1].ok
    /\ result' = Some(Err(into_untyped(result[1].e)))
    /\ last' = Op("into_untyped", result[1].e, result'[1].e)
    /\ UNCHANGED << builder, response >>
    /\ Idle

Next ==
    \/ FormUrlencoded
    \/ FormFromRaw
    \/ HeaderInvalid
    \/ TransportFails
    \/ Receive
    \/ FromResponse
    \/ Upgrade
    \/ Stream
    \/ Empty
    \/ Unexpected
    \/ PayloadInvalid
    \/ Documented
    \/ Map
    \/ IntoUntyped

Spec == Init /\ [][Next]_vars

----------------------------------------------------------------------------
(* content_length over test-fixture values: ResponseValue::new takes any   *)
(* header collection.                                                      *)

MaxValueLen == 3

MaxHeaders == 2

\* '0' '1' '9' '+' '-' 'a' and a byte that is not text
ValueBytes == {48, 49, 57, 43, 45, 97, 128}

\* Values around the limbs' and the u64's upper ends.
LongValues ==
    { <<49, 56, 52, 52, 54, 55, 52, 52, 48, 55, 51, 55, 48, 57, 53, 53, 49, 54, 49, 53>>,
      <<49, 56, 52, 52, 54, 55, 52, 52, 48, 55, 51, 55, 48, 57, 53, 53, 49, 54, 49, 54>>,
      <<43, 49, 56, 52, 52, 54, 55, 52, 52, 48, 55, 51, 55, 48, 57, 53, 53, 49, 54, 49, 53>>,
      <<48, 48, 48, 49, 56, 52, 52, 54, 55, 52, 52, 48, 55, 51, 55, 48, 57, 53, 53, 49, 54, 49, 53>>,
      <<57, 57, 57, 57, 57, 57, 57, 57, 57, 57, 57, 57, 57, 57, 57, 57, 57, 57, 57, 57>>,
      <<49, 48, 48, 48, 48, 48, 48, 48, 48, 48, 48, 48, 48, 48, 48, 48, 48, 48, 48, 48, 48>>,
      <<49, 56, 52, 52, 54, 55, 52, 52, 48, 55, 51, 55, 48, 57, 53, 53, 49, 57, 57, 57>>,
      <<54, 53, 53, 51, 54>>,
      <<52, 50, 57, 52, 57, 54, 55, 50, 57, 54>> }

HeaderValues == SeqsUpTo(ValueBytes, MaxValueLen) \cup LongValues

\* Values of the entries after the first: "5", "+7", "x"
LaterValues == { <<53>>, <<43, 55>>, <<120>> }

HeaderNames == {CONTENT_LENGTH, CONTENT_TYPE}

HeaderMaps ==
    { << >> } \cup
    { << <<n, v>> >> \o rest :
        n \in HeaderNames, v \in HeaderValues,
        rest \in SeqsUpTo(HeaderNames \X LaterValues, MaxHeaders - 1) }

InitHeaders ==
    /\ builder = None
    /\ response = None
    /\ result = None
    /\ last = Op("init", None, None)
    /\ pc = NoText
    /\ encoded = << >>

New ==
    /\ result = None
    /\ \E headers \in HeaderMaps, s \in {200, 404} :
          /\ result' = Some(Ok(new(Unit, s, headers)))
          /\ last' = Op("new", [inner |-> Unit, status |-> s,
                                headers |-> headers], result'[1])
    /\ UNCHANGED << builder, response >>
    /\ Idle

ContentLength ==
    /\ result # None
    /\ result[1].ok
    /\ last' = Op("content_length", result[1].v, content_length(result[1].v))
    /\ UNCHANGED << builder, response, result >>
    /\ Idle

NextHeaders ==
    \/ New
    \/ ContentLength

SpecHeaders == InitHeaders /\ [][NextHeaders]_vars

----------------------------------------------------------------------------
(* encode_path over path parameters: a text is valid UTF-8, so it is a     *)
(* sequence of characters, each one to four bytes.                         *)

MaxPathLen == 4

\* '0' '1' '2' '5' 'a' '%' '/' ' ' DEL, a newline, and U+00E9 (two bytes)
PathChars ==
    { <<48>>, <<49>>, <<50>>, <<53>>, <<97>>, <<37>>, <<47>>, <<32>>, <<127>>,
      <<10>>, <<195, 169>> }

RECURSIVE Utf8(_)
Utf8(chars) == IF chars = << >> THEN << >> ELSE chars[1] \o Utf8(Tail(chars))

PathTexts == { Utf8(t) : t \in SeqsUpTo(PathChars, MaxPathLen) }

InitPath ==
    /\ builder = None
    /\ response = None
    /\ result = None
    /\ last = Op("init", None, None)
    /\ pc \in PathTexts
    /\ encoded = << >>

\* The call site encodes a path parameter.
EncodePath ==
    /\ encoded = << >>
    /\ encoded' = << encode_path(pc) >>
    /\ last' = Op("encode_path", pc, encoded'[1])
    /\ UNCHANGED << builder, response, result, pc >>

\* A caller hands over a text that was encoded before.
EncodeAgain ==
    /\ Len(encoded) = 1
    /\ encoded' = Append(encoded, encode_path(encoded[1]))
    /\ last' = Op("encode_path", encoded[1], encoded'[2])
    /\ UNCHANGED << builder, response, result, pc >>

NextPath ==
    \/ EncodePath
    \/ EncodeAgain

SpecPath == InitPath /\ [][NextPath]_vars

----------------------------------------------------------------------------
(* Properties of the construction paths (Spec)                             *)

IsUpgrade == last.op = "upgrade"

UpgradeRefuses ==
    last.in.status # SWITCHING_PROTOCOLS =>
        /\ last.out = Err(UnexpectedResponse(last.in))
        /\ \A h \in BOOLEAN :
              LET r == [last.in EXCEPT !.handshake = h]
              IN  upgrade(r) = Err(UnexpectedResponse(r))

UpgradeAccepts ==
    /\ last.out.ok
    /\ rv_status(last.out.v) = SWITCHING_PROTOCOLS
    /\ rv_headers(last.out.v) = last.in.headers
    /\ into_inner(last.out.v) = [type |-> "Upgraded", of |-> last.in.body]

\* C1, as stated: upgrade gives Ok, with status 101, the response's headers
\* and the upgraded connection, for every response of status 101, and
\* Err(UnexpectedResponse) with the response unchanged for every other status,
\* where no handshake is attempted.
C1_UpgradeAlwaysOk ==
    IsUpgrade =>
        /\ last.in.status = SWITCHING_PROTOCOLS => UpgradeAccepts
        /\ UpgradeRefuses

\* C1, amended: for a response of status 101 upgrade gives Ok (status 101,
\* the response's headers, the upgraded connection) when the handshake
\* succeeds and Err(InvalidResponsePayload) with the handshake's error when it
\* fails; for every other status it gives Err(UnexpectedResponse) with the
\* response unchanged, whatever the handshake would do.
C1_Upgrade ==
    IsUpgrade =>
        /\ (last.in.status = SWITCHING_PROTOCOLS /\ last.in.handshake)
              => UpgradeAccepts
        /\ (last.in.status = SWITCHING_PROTOCOLS /\ ~last.in.handshake)
              => /\ ~last.out.ok
                 /\ last.out.e.variant = "InvalidResponsePayload"
                 /\ last.out.e.e.kind = "Upgrade"
        /\ UpgradeRefuses
        /\ result = Some(last.out)

C1_Witness ==
    /\ IsUpgrade
    /\ last.in.status = SWITCHING_PROTOCOLS
    /\ last.in.headers # << >>
    /\ last.out.ok

\* C2: from_response gives Err(InvalidResponsePayload), and no
\* ResponseValue, when the body does not decode as the target type, and
\* Ok(ResponseValue) with the parsed value and the response's status and
\* headers when it does; the status never decides which.
C2_TypedDecode ==
    last.op = "from_response" =>
        /\ last.in.body.kind # "json" =>
              /\ ~last.out.ok
              /\ last.out.e.variant = "InvalidResponsePayload"
        /\ last.in.body.kind = "json" =>
              /\ last.out.ok
              /\ into_inner(last.out.v) = Value(last.in.body.v)
              /\ rv_status(last.out.v) = last.in.status
              /\ rv_headers(last.out.v) = last.in.headers
        /\ result = Some(last.out)
        /\ \A s \in Statuses :
              from_response([last.in EXCEPT !.status = s]).ok = last.out.ok

C2_Witness ==
    /\ last.op = "from_response"
    /\ last.in.status = 404
    /\ last.in.headers # << >>
    /\ last.out.ok
    /\ into_inner(last.out.v) = Value(7)

HeldError == result # None /\ ~result[1].ok

\* C3: Error::status() is the response's status for every error made after a
\* response was received, and None only for InvalidRequest; every error that
\* from_response or upgrade returns has the status of the response it was
\* given.
C3_StatusAfterResponse ==
    /\ (last.op \in {"from_response", "upgrade"} /\ ~last.out.ok)
          => status(last.out.e) = Some(last.in.status)
    /\ (HeldError /\ status(result[1].e) = None)
          => result[1].e.variant = "InvalidRequest"

C6_IntoUntyped ==
    last.op = "into_untyped" =>
        /\ last.in.variant = "ErrorResponse" =>
              last.out = ErrorResponse(
                  ResponseValue(Unit, last.in.rv.status, last.in.rv.headers))
        /\ last.in.variant # "ErrorResponse" => last.out = last.in
        /\ status(last.out) = status(last.in)
        /\ into_untyped(last.out) = last.out
        /\ result = Some(Err(last.out))

C6_Witness ==
    /\ last.op = "into_untyped"
    /\ last.in.variant = "ErrorResponse"
    /\ last.in.rv.inner = Value(7)
    /\ last.in.rv.headers # << >>
    /\ last.out.rv.inner = Unit

\* C7: map(f) always gives Ok of a ResponseValue with the same status and
\* headers whose inner value is f applied once to the old inner value; with
\* the identity the value is unchanged.
C7_Map ==
    last.op = "map" =>
        /\ last.out.ok
        /\ rv_status(last.out.v) = rv_status(last.in.self)
        /\ rv_headers(last.out.v) = rv_headers(last.in.self)
        /\ into_inner(last.out.v) = Apply(last.in.f, into_inner(last.in.self))
        /\ last.in.f = "id" => last.out.v = last.in.self
        /\ result = Some(last.out)

C7_Witness ==
    /\ last.op = "map"
    /\ last.in.f = "tag"
    /\ last.in.self.inner = Value(8)
    /\ last.in.self.status = 404
    /\ last.in.self.headers # << >>
    /\ last.out.v.inner = [type |-> "tagged", of |-> "value"]

\* C8: a ResponseValue made by from_response, upgrade, stream or empty has
\* the status and headers of its response; stream and empty give a value
\* (a ByteStream over the body, a unit) for every response, whatever its
\* status and body.
C8_Captured ==
    /\ (last.op \in {"from_response", "upgrade", "stream", "empty"}
          /\ last.out.ok)
          => /\ rv_status(last.out.v) = last.in.status
             /\ rv_headers(last.out.v) = last.in.headers
    /\ last.op = "stream" =>
          /\ last.out.ok
          /\ into_inner(last.out.v) = ByteStream(last.in.body)
          /\ result = Some(last.out)
    /\ last.op = "empty" =>
          /\ last.out.ok
          /\ into_inner(last.out.v) = Unit
          /\ result = Some(last.out)

C8_Witness ==
    /\ last.op = "empty"
    /\ last.in.status = 404
    /\ last.in.body.kind = "json"
    /\ last.in.headers # << >>
    /\ result[1].v.inner = Unit

FormUrlencodedText == "application/x-www-form-urlencoded"

\* C10: form_urlencoded gives Err(InvalidRequest) exactly when the body
\* does not serialize and otherwise Ok with the form content-type set;
\* form_from_raw gives Ok for every sequence of pairs, the empty one
\* included; a header-validation failure converts to InvalidRequest with its
\* message and a transport failure to CommunicationError with that failure.
C10_RequestSide ==
    /\ last.op = "form_urlencoded" =>
          /\ last.out.ok <=> last.in.body.kind = "pairs"
          /\ ~last.out.ok => /\ last.out.e.variant = "InvalidRequest"
                             /\ result = Some(last.out)
          /\ last.out.ok =>
                /\ \E i \in 1..Len(last.out.v.headers) :
                      last.out.v.headers[i] = <<CONTENT_TYPE, FormUrlencodedText>>
                /\ last.out.v.body = Some(last.in.body.text)
                /\ builder = Some(last.out.v)
    /\ last.op = "form_from_raw" =>
          /\ last.out.ok
          /\ builder = Some(last.out.v)
          /\ result = None
    /\ last.op = "from_invalid_header_value" =>
          last.out = Err([variant |-> "InvalidRequest", msg |-> last.in])
    /\ last.op = "from_reqwest_error" =>
          last.out = Err([variant |-> "CommunicationError", e |-> last.in])

C10_Witness ==
    /\ last.op = "form_urlencoded"
    /\ last.in.body.kind = "unsupported"
    /\ result # None
    /\ result[1].e.variant = "InvalidRequest"

----------------------------------------------------------------------------
(* Properties of content_length (SpecHeaders)                              *)

\* A non-negative integer literal: an optional '+', then one or more
\* decimal digits.
Digits(v) == IF v # << >> /\ v[1] = 43 THEN Tail(v) ELSE v

IsLiteral(v) ==
    /\ Digits(v) # << >>
    /\ \A i \in 1..Len(Digits(v)) : Digits(v)[i] \in 48..57

\* The literal's digits without leading zeros.
RECURSIVE Canonical(_)
Canonical(d) ==
    IF Len(d) > 1 /\ d[1] = 48 THEN Canonical(Tail(d)) ELSE d

\* 2^64 - 1 in decimal
MaxU64Text == <<49, 56, 52, 52, 54, 55, 52, 52, 48, 55, 51, 55, 48, 57, 53, 53, 49, 54, 49, 53>>

RECURSIVE LexLeq(_, _)
LexLeq(a, c) ==
    \/ a = << >>
    \/ a[1] < c[1]
    \/ a[1] = c[1] /\ LexLeq(Tail(a), Tail(c))

FitsU64(v) ==
    LET c == Canonical(Digits(v))
    IN  \/ Len(c) < Len(MaxU64Text)
        \/ Len(c) = Len(MaxU64Text) /\ LexLeq(c, MaxU64Text)

\* One step of the long division of the limbs by ten, from the top limb.
RECURSIVE DivTen(_, _, _)
DivTen(n, i, rem) ==
    IF i = 0 THEN [n |-> n, rem |-> rem]
    ELSE LET cur == rem * LimbBase + n[i]
         IN  DivTen([n EXCEPT ![i] = cur \div 10], i - 1, cur % 10)

\* The decimal text of a u64.
RECURSIVE Decimal(_)
Decimal(n) ==
    LET q == DivTen(n, Len(n), 0)
    IN  IF q.n = ZeroU64 THEN << 48 + q.rem >>
        ELSE Append(Decimal(q.n), 48 + q.rem)

ValidLength(v) == IsLiteral(v) /\ FitsU64(v)

ContentLengths(headers) ==
    { headers[i][2] : i \in {j \in 1..Len(headers) :
                                headers[j][1] = CONTENT_LENGTH} }

IsContentLength == last.op = "content_length"

\* C5, as stated: content_length is Some(n) exactly when the headers hold a
\* content-length header whose value is a non-negative integer literal that
\* denotes n and fits a u64, and None in every other case; the value itself
\* is left unchanged.
C5_AnyContentLength ==
    IsContentLength =>
        LET denoted == { Canonical(Digits(v)) :
                            v \in {w \in ContentLengths(last.in.headers) :
                                      ValidLength(w)} }
        IN  /\ last.out = None => denoted = {}
            /\ last.out # None => denoted = { Decimal(last.out[1]) }
            /\ result = Some(Ok(last.in))

\* C5, amended: content_length looks only at the first content-length value
\* of the headers. It is Some(n) exactly when that value is an optional '+'
\* followed by one or more decimal digits that denote n, n at most 2^64 - 1,
\* and None in every other case (no such header, or a first value that is
\* not such a literal, whatever the later values are); the value itself is
\* left unchanged.
C5_ContentLength ==
    IsContentLength =>
        LET at == {i \in 1..Len(last.in.headers) :
                      last.in.headers[i][1] = CONTENT_LENGTH}
            first == last.in.headers[CHOOSE i \in at : \A j \in at : i <= j][2]
        IN  /\ last.out = None <=> (at = {} \/ ~ValidLength(first))
            /\ last.out # None =>
                  Decimal(last.out[1]) = Canonical(Digits(first))
            /\ result = Some(Ok(last.in))

C5_Witness ==
    /\ IsContentLength
    /\ Len(last.in.headers) = 2
    /\ last.in.headers[1] = <<CONTENT_LENGTH, <<43, 48, 57>> >>
    /\ last.in.headers[2] = <<CONTENT_LENGTH, <<53>> >>
    /\ last.out = Some(<<9, 0, 0, 0>>)

----------------------------------------------------------------------------
(* Properties of encode_path (SpecPath)                                    *)

\* The characters the path-segment encoding must escape.
Escaped == (0..31) \cup {127, 32, 34, 35, 60, 62, 63, 96, 123, 125, 47, 37}

IsHex(c) == c \in (48..57) \cup (65..70)

HexValue(c) == IF c <= 57 THEN c - 48 ELSE c - 55

IsEscapeOf(out, b) ==
    /\ Len(out) >= 3
    /\ out[1] = 37
    /\ IsHex(out[2])
    /\ IsHex(out[3])
    /\ HexValue(out[2]) * 16 + HexValue(out[3]) = b

\* out is in, character by character: an escape for a character that must
\* be escaped, the character itself for any other ASCII character.
RECURSIVE Encodes(_, _)
Encodes(in, out) ==
    IF in = << >> THEN out = << >>
    ELSE \/ /\ in[1] \in Escaped \/ in[1] >= 128
            /\ IsEscapeOf(out, in[1])
            /\ Encodes(Tail(in), SubSeq(out, 4, Len(out)))
         \/ /\ in[1] \notin Escaped
            /\ out # << >>
            /\ out[1] = in[1]
            /\ Encodes(Tail(in), Tail(out))

Text100Percent == <<49, 48, 48, 37>>

Text100Percent25 == <<49, 48, 48, 37, 50, 53>>

\* C9: encode_path replaces each control character, space, " # < > ? ` { }
\* / and % by its percent escape and copies every other ASCII character, so
\* the output holds none of them but '%' at the start of an escape; "100%"
\* becomes "100%25", which no input not ending in '%' gives; "%20" is
\* escaped again, and encoding an encoded text changes it whenever the first
\* encoding changed the input.
C9_EncodePath ==
    last.op = "encode_path" =>
        /\ Encodes(last.in, last.out)
        /\ \A i \in 1..Len(last.out) :
              /\ last.out[i] \notin Escaped \ {37}
              /\ last.out[i] = 37 =>
                    /\ i + 2 <= Len(last.out)
                    /\ IsHex(last.out[i + 1])
                    /\ IsHex(last.out[i + 2])
        /\ last.in = Text100Percent => last.out = Text100Percent25
        /\ (last.in = << >> \/ last.in[Len(last.in)] # 37)
              => last.out # Text100Percent25
        /\ last.in = <<37, 50, 48>> => last.out = <<37, 50, 53, 50, 48>>
        /\ (Len(encoded) = 2 /\ encoded[1] # pc) => encoded[2] # encoded[1]

C9_Witness ==
    /\ pc = Text100Percent
    /\ Len(encoded) = 2
    /\ encoded[1] = Text100Percent25
    /\ encoded[2] # encoded[1]

====
